---- MODULE Spec2Model ----
(***************************************************************************)
(* Model of enthought/mayavi/tools/sources.py: the three argument          *)
(* normalizers (process_regular_vectors, process_regular_scalars,          *)
(* process_regular_2d_scalars) and the seven data source builders          *)
(* (vectorscatter, vectorfield, scalarscatter, scalarfield, linesource,    *)
(* array2dsource, gridsource).                                             *)
(*                                                                         *)
(* A numpy array is a record [t, shape, data, f]: shape is the tuple of    *)
(* dimensions, data maps every 0-based index tuple of that shape to an     *)
(* integer.  None and callables are records of the same form.  A Python    *)
(* call yields a record [exc, val, ...]: exc is "none" when the call       *)
(* returns val, and the exception class name when it raises.               *)
(***************************************************************************)
EXTENDS Integers, Sequences, FiniteSets, TLC

VARIABLES registry,    \* the external scene: sequence of [obj, name] handed to tools._add_data
          pc,          \* the caller: "ready" to call, or "returned" from the last call
          call,        \* the last call: [fn, args, kwargs]
          outcome,     \* its outcome: [exc, val]
          fCalls,      \* argument tuples the callable argument was invoked with during the last call
          glyphCalls,  \* <<points, vectors, scalars>> of every mlab.Glyphs call of the last call
          addCalls     \* <<obj, name>> of every tools._add_data call of the last call

vars == <<registry, pc, call, outcome, fCalls, glyphCalls, addCalls>>

----------------------------------------------------------------------------
(* Bounds *)

MaxDim == 2        \* largest number of samples along one axis of an input array
MaxArity == 7      \* largest number of positional arguments of a normalizer call
MaxRegistry == 2   \* largest number of registered objects explored
MaxPts == 5        \* largest number of points of a 1-D line input

----------------------------------------------------------------------------
(* Python values *)

NoneV == [t |-> "None", shape |-> <<>>, data |-> <<>>, f |-> ""]

Callable(name) == [t |-> "callable", shape |-> <<>>, data |-> <<>>, f |-> name]

RECURSIVE Size(_)
Size(sh) == IF sh = <<>> THEN 1 ELSE Head(sh) * Size(Tail(sh))

RECURSIVE IndexSet(_)
IndexSet(sh) ==
    IF sh = <<>> THEN {<<>>}
    ELSE {<<i>> \o r : i \in 0..(Head(sh) - 1), r \in IndexSet(Tail(sh))}

Array(sh, d) == [t |-> "array", shape |-> sh, data |-> d, f |-> ""]

\* an array of shape sh holding c, c+1, ... in C order
RECURSIVE RavelIndex(_, _)
RavelIndex(sh, idx) ==
    IF sh = <<>> THEN 0
    ELSE Head(idx) * Size(Tail(sh)) + RavelIndex(Tail(sh), Tail(idx))

Ramp(sh, c) == Array(sh, [idx \in IndexSet(sh) |-> c + RavelIndex(sh, idx)])

\* a coordinate array as numpy.mgrid makes it: start + step * (index along axis)
Mgrid(sh, axis, start, step) ==
    Array(sh, [idx \in IndexSet(sh) |-> start + step * idx[axis]])

IsArray(a) == a.t = "array"

\* Python's callable(): arrays and None are not callable
callable(f) == f.t = "callable"

\* s == None as the code uses it on an array or None
IsNone(s) == s.t = "None"

----------------------------------------------------------------------------
(* numpy *)

RECURSIVE Unravel(_, _)
Unravel(sh, n) ==
    IF sh = <<>> THEN <<>>
    ELSE LET sz == Size(Tail(sh))
         IN <<n \div sz>> \o Unravel(Tail(sh), n % sz)

\* a.ravel(): the elements in C order (last index varies fastest)
ravel(a) == [n \in 1..Size(a.shape) |-> a.data[Unravel(a.shape, n - 1)]]

\* numpy.indices(shape)[axis]
indices(sh, axis) == Array(sh, [idx \in IndexSet(sh) |-> idx[axis]])

\* numpy.c_[a, b, c] of three flat arrays of one length: the rows <<a[n], b[n], c[n]>>
c_(a, b, c) == [n \in 1..Len(a) |-> <<a[n], b[n], c[n]>>]

SetMin(S) == CHOOSE m \in S : \A e \in S : m <= e

\* a.min()
min(a) == SetMin({a.data[idx] : idx \in DOMAIN a.data})

\* a[idx]: the element, or IndexError
InBounds(a, idx) == idx \in DOMAIN a.data

\* numpy.arange(start, stop, 1, 'l') with start and stop given doubled
\* (stop is a half integer in the code): start, start+1, ... below stop
arange(start2, stop2) ==
    LET n == IF stop2 > start2 THEN (stop2 - start2 + 1) \div 2 ELSE 0
    IN [k \in 1..n |-> (start2 \div 2) + (k - 1)]

----------------------------------------------------------------------------
(* Results of Python calls *)

NoVal == <<>>

Ok(v, fc) == [exc |-> "none", val |-> v, fcalls |-> fc]

Raise(e, fc) == [exc |-> e, val |-> NoVal, fcalls |-> fc]

\* the callables of the model, as the caller may pass them
\* f(x, y, z) of a 4-argument vector call: returns (u, v, w)
CallVec(f, x, y, z) ==
    IF f.f = "f_rot" THEN <<y, z, x>>
    ELSE <<x, y, Ramp(<<1>>, 0)>>

\* s(x, y, z) of a 4-argument scalar call: returns an array
CallScal(f, x, y, z) ==
    IF f.f = "f_rot" THEN Array(x.shape, [idx \in DOMAIN x.data |-> 2 * x.data[idx] + 1])
    ELSE Ramp(<<1>>, 0)

\* s(x, y) of a 3-argument 2D scalar call: returns an array
Call2D(f, x, y) ==
    IF f.f = "f_rot" THEN Array(y.shape, [idx \in DOMAIN y.data |-> 2 * y.data[idx] + 1])
    ELSE Ramp(<<1>>, 0)

----------------------------------------------------------------------------
(* process_regular_vectors *)

\* variant: the index arrays taken in the order z, y, x
vectors_from_components_swapped(u, v, w) ==
    IF Len(u.shape) # 3 THEN Raise("AssertionError", <<>>)
    ELSE Ok(<<indices(u.shape, 3), indices(u.shape, 2), indices(u.shape, 1), u, v, w>>, <<>>)

\* 3 arguments: u, v, w; x, y, z are the index arrays of u's shape
vectors_from_components(u, v, w) ==
    IF Len(u.shape) # 3 THEN Raise("AssertionError", <<>>)
    ELSE Ok(<<indices(u.shape, 1), indices(u.shape, 2), indices(u.shape, 3), u, v, w>>, <<>>)

\* variant: f called without the callable() test
vectors_from_callable_unchecked(x, y, z, f) ==
    IF ~callable(f) THEN Raise("TypeError", <<>>)
    ELSE LET uvw == CallVec(f, x, y, z)
         IN Ok(<<x, y, z, uvw[1], uvw[2], uvw[3]>>, <<<<x, y, z>>>>)

\* 4 arguments: x, y, z, f with f callable
vectors_from_callable(x, y, z, f) ==
    IF ~callable(f) THEN Raise("ValueError", <<>>)
    ELSE LET uvw == CallVec(f, x, y, z)
         IN Ok(<<x, y, z, uvw[1], uvw[2], uvw[3]>>, <<<<x, y, z>>>>)

\* variant: the assertion without its last comparison
vectors_shapes_equal_short(x, y, z, u, v, w) ==
    /\ x.shape = y.shape
    /\ y.shape = z.shape
    /\ u.shape = z.shape
    /\ v.shape = u.shape

\* the closing assertion on the six shapes
vectors_shapes_equal(x, y, z, u, v, w) ==
    /\ x.shape = y.shape
    /\ y.shape = z.shape
    /\ u.shape = z.shape
    /\ v.shape = u.shape
    /\ w.shape = v.shape

process_regular_vectors(args) ==
    LET d == IF Len(args) = 3 THEN vectors_from_components(args[1], args[2], args[3])
             ELSE IF Len(args) = 6 THEN Ok(args, <<>>)
             ELSE IF Len(args) = 4 THEN vectors_from_callable(args[1], args[2], args[3], args[4])
             ELSE Raise("ValueError", <<>>)
    IN IF d.exc # "none" THEN d
       ELSE IF vectors_shapes_equal(d.val[1], d.val[2], d.val[3], d.val[4], d.val[5], d.val[6])
            THEN d
            ELSE Raise("AssertionError", d.fcalls)

----------------------------------------------------------------------------
(* process_regular_scalars *)

\* 1 argument: s; x, y, z are the index arrays of s's shape
scalars_from_array(s) ==
    IF Len(s.shape) # 3 THEN Raise("AssertionError", <<>>)
    ELSE Ok(<<indices(s.shape, 1), indices(s.shape, 2), indices(s.shape, 3), s>>, <<>>)

\* 4 arguments: x, y, z, s with s an array (or None) or a callable
scalars_from_callable(x, y, z, s) ==
    IF callable(s) THEN Ok(<<x, y, z, CallScal(s, x, y, z)>>, <<<<x, y, z>>>>)
    ELSE Ok(<<x, y, z, s>>, <<>>)

\* variant: the assertion without the comparison of s
scalars_shapes_equal_coords(x, y, z, s) ==
    /\ x.shape = y.shape
    /\ y.shape = z.shape

\* the closing assertion on the shapes
scalars_shapes_equal(x, y, z, s) ==
    /\ x.shape = y.shape
    /\ y.shape = z.shape
    /\ (IsNone(s) \/ s.shape = z.shape)

process_regular_scalars(args) ==
    LET d == IF Len(args) = 1 THEN scalars_from_array(args[1])
             ELSE IF Len(args) = 3 THEN Ok(<<args[1], args[2], args[3], NoneV>>, <<>>)
             ELSE IF Len(args) = 4 THEN scalars_from_callable(args[1], args[2], args[3], args[4])
             ELSE Raise("ValueError", <<>>)
    IN IF d.exc # "none" THEN d
       ELSE IF scalars_shapes_equal(d.val[1], d.val[2], d.val[3], d.val[4])
            THEN d
            ELSE Raise("AssertionError", d.fcalls)

----------------------------------------------------------------------------
(* process_regular_2d_scalars *)

process_regular_2d_scalars(args) ==
    LET d == IF Len(args) = 1
             THEN IF Len(args[1].shape) # 2 THEN Raise("AssertionError", <<>>)
                  ELSE Ok(<<indices(args[1].shape, 1), indices(args[1].shape, 2), args[1]>>, <<>>)
             ELSE IF Len(args) = 3
             THEN IF callable(args[3])
                  THEN Ok(<<args[1], args[2], Call2D(args[3], args[1], args[2])>>,
                          <<<<args[1], args[2]>>>>)
                  ELSE Ok(args, <<>>)
             ELSE Raise("ValueError", <<>>)
    IN IF d.exc # "none" THEN d
       ELSE IF d.val[1].shape # d.val[2].shape THEN Raise("AssertionError", d.fcalls)
       ELSE IF ~IsArray(d.val[3]) THEN Raise("AttributeError", d.fcalls)
       ELSE IF d.val[3].shape # d.val[2].shape THEN Raise("AssertionError", d.fcalls)
       ELSE d

----------------------------------------------------------------------------
(* Collaborators and data sources *)

\* a renderer-native object, as far as this module fills it in
DataSource(kind, points, vectors, scalars, lines, origin, spacing) ==
    [kind |-> kind, points |-> points, vectors |-> vectors, scalars |-> scalars,
     lines |-> lines, origin |-> origin, spacing |-> spacing]

\* kwargs.pop(key, default)
Pop(kwargs, key, default) == IF key \in DOMAIN kwargs THEN kwargs[key] ELSE default

\* the result of a builder: what it returns or raises, the calls of the
\* callable argument, of mlab.Glyphs and of tools._add_data it made
BuilderRaise(e, fc) ==
    [exc |-> e, val |-> NoVal, fcalls |-> fc, glyphs |-> <<>>, adds |-> <<>>]

\* return tools._add_data(data_source, name)
BuilderReturn(ds, name, fc, gl) ==
    [exc |-> "none", val |-> ds, fcalls |-> fc, glyphs |-> gl, adds |-> <<<<ds, name>>>>]

\* tools._add_data(data_source, name): attaches the object to the scene
AddData(reg, ds, name) == Append(reg, [obj |-> ds, name |-> name])

_make_glyph_data(points, vectors, scalars) ==
    DataSource("glyphs", points, vectors, scalars, <<>>, <<>>, <<>>)

\* the sequence a.ravel() of an array, None for None
RavelOrNone(s) == IF IsNone(s) THEN NoneV ELSE ravel(s)

----------------------------------------------------------------------------
(* vectorscatter *)

vectorscatter(args, kwargs) ==
    LET r == process_regular_vectors(args)
    IN IF r.exc # "none" THEN BuilderRaise(r.exc, r.fcalls)
       ELSE LET points == c_(ravel(r.val[1]), ravel(r.val[2]), ravel(r.val[3]))
                vectors == c_(ravel(r.val[4]), ravel(r.val[5]), ravel(r.val[6]))
                scalars == Pop(kwargs, "scalar", NoneV)
                name == Pop(kwargs, "name", "VectorScatter")
            IN BuilderReturn(_make_glyph_data(points, vectors, scalars), name,
                             r.fcalls, <<<<points, vectors, scalars>>>>)

----------------------------------------------------------------------------
(* vectorfield and scalarfield *)

\* dx = x[1,0,0] - x[0,0,0]; dy = y[0,1,0] - y[0,0,0]; dz = z[0,0,1] - z[0,0,0]
field_spacing(x, y, z) ==
    IF /\ InBounds(x, <<1, 0, 0>>) /\ InBounds(x, <<0, 0, 0>>)
       /\ InBounds(y, <<0, 1, 0>>) /\ InBounds(y, <<0, 0, 0>>)
       /\ InBounds(z, <<0, 0, 1>>) /\ InBounds(z, <<0, 0, 0>>)
    THEN Ok(<<x.data[<<1, 0, 0>>] - x.data[<<0, 0, 0>>],
              y.data[<<0, 1, 0>>] - y.data[<<0, 0, 0>>],
              z.data[<<0, 0, 1>>] - z.data[<<0, 0, 0>>]>>, <<>>)
    ELSE Raise("IndexError", <<>>)

\* numpy.concatenate([u[..., newaxis], v[..., newaxis], w[..., newaxis]], axis=3)
concatenate(u, v, w) ==
    Array(u.shape \o <<3>>,
          [idx \in IndexSet(u.shape \o <<3>>) |->
              <<u, v, w>>[idx[4] + 1].data[<<idx[1], idx[2], idx[3]>>]])

vectorfield(args, kwargs) ==
    LET r == process_regular_vectors(args)
    IN IF r.exc # "none" THEN BuilderRaise(r.exc, r.fcalls)
       ELSE LET sp == field_spacing(r.val[1], r.val[2], r.val[3])
            IN IF sp.exc # "none" THEN BuilderRaise(sp.exc, r.fcalls)
               ELSE LET vectors == concatenate(r.val[4], r.val[5], r.val[6])
                        scalars == Pop(kwargs, "scalars", NoneV)
                        \* kwargs = {}; kwargs['scalar_data'] = scalars if not None
                        kwargs2 == [k \in (IF IsNone(scalars) THEN {} ELSE {"scalar_data"})
                                       |-> scalars]
                        ds == DataSource("ArraySource", <<>>, vectors,
                                         Pop(kwargs2, "scalar_data", NoneV), <<>>,
                                         <<min(r.val[1]), min(r.val[2]), min(r.val[3])>>,
                                         sp.val)
                        name == Pop(kwargs2, "name", "VectorField")
                    IN BuilderReturn(ds, name, r.fcalls, <<>>)

scalarfield(args, kwargs) ==
    LET r == process_regular_scalars(args)
    IN IF r.exc # "none" THEN BuilderRaise(r.exc, r.fcalls)
       ELSE LET points == c_(ravel(r.val[1]), ravel(r.val[2]), ravel(r.val[3]))
                sp == field_spacing(r.val[1], r.val[2], r.val[3])
            IN IF sp.exc # "none" THEN BuilderRaise(sp.exc, r.fcalls)
               ELSE LET ds == DataSource("ArraySource", <<>>, NoneV, r.val[4], <<>>,
                                         <<points[1][1], points[1][2], points[1][3]>>,
                                         sp.val)
                        name == Pop(kwargs, "name", "ScalarField")
                    IN BuilderReturn(ds, name, r.fcalls, <<>>)

----------------------------------------------------------------------------
(* scalarscatter *)

scalarscatter(args, kwargs) ==
    LET r == process_regular_scalars(args)
    IN IF r.exc # "none" THEN BuilderRaise(r.exc, r.fcalls)
       ELSE LET points == c_(ravel(r.val[1]), ravel(r.val[2]), ravel(r.val[3]))
                s == RavelOrNone(r.val[4])
                name == Pop(kwargs, "name", "ScalarScatter")
            IN BuilderReturn(_make_glyph_data(points, NoneV, s), name,
                             r.fcalls, <<<<points, NoneV, s>>>>)

----------------------------------------------------------------------------
(* linesource *)

\* variant: np = len(points)
linesource_lines_offbyone(n) ==
    LET np == n
    IN IF np < 0 THEN Raise("ValueError", <<>>)
       ELSE LET c0 == arange(0, 2 * np - 1)
                c1 == arange(2, 2 * np + 1)
            IN IF Len(c0) # np \/ Len(c1) # np THEN Raise("ValueError", <<>>)
               ELSE Ok([i \in 1..np |-> <<c0[i], c1[i]>>], <<>>)

\* np = len(points) - 1; lines = zeros((np, 2));
\* lines[:,0] = arange(0, np-0.5); lines[:,1] = arange(1, np+0.5)
linesource_lines(n) ==
    LET np == n - 1
    IN IF np < 0 THEN Raise("ValueError", <<>>)
       ELSE LET c0 == arange(0, 2 * np - 1)
                c1 == arange(2, 2 * np + 1)
            IN IF Len(c0) # np \/ Len(c1) # np THEN Raise("ValueError", <<>>)
               ELSE Ok([i \in 1..np |-> <<c0[i], c1[i]>>], <<>>)

linesource(args, kwargs) ==
    IF Len(args) = 1 THEN BuilderRaise("ValueError", <<>>)
    ELSE LET r == process_regular_scalars(args)
         IN IF r.exc # "none" THEN BuilderRaise(r.exc, r.fcalls)
            ELSE LET points == c_(ravel(r.val[1]), ravel(r.val[2]), ravel(r.val[3]))
                     lines == linesource_lines(Len(points))
                 IN IF lines.exc # "none" THEN BuilderRaise(lines.exc, r.fcalls)
                    ELSE LET ds == DataSource("PolyData", points, NoneV,
                                              RavelOrNone(r.val[4]), lines.val, <<>>, <<>>)
                             name == Pop(kwargs, "name", "LineSource")
                         IN BuilderReturn(ds, name, r.fcalls, <<>>)

----------------------------------------------------------------------------
(* array2dsource *)

SetMax(S) == CHOOSE m \in S : \A e \in S : m >= e

\* a.max()
max(a) == SetMax({a.data[idx] : idx \in DOMAIN a.data})

\* numpy.linspace(lo, hi, num), kept as its three parameters
linspace(lo, hi, num) == [lo |-> lo, hi |-> hi, num |-> num]

\* s.T of a 2-D array
transpose(s) ==
    Array(<<s.shape[2], s.shape[1]>>,
          [idx \in IndexSet(<<s.shape[2], s.shape[1]>>) |-> s.data[<<idx[2], idx[1]>>]])

\* n / 2. as a fraction
Half(n) == [num |-> n, den |-> 2]

array2dsource(args, kwargs) ==
    LET name == Pop(kwargs, "name", "Array2DSource")
    IN IF Len(args) = 1
       THEN LET s == args[1]
            IN IF Len(s.shape) # 2 THEN BuilderRaise("ValueError", <<>>)
               ELSE BuilderReturn(
                      DataSource("ArraySource", <<>>, NoneV, s, <<>>,
                                 <<Half(-s.shape[1]), Half(s.shape[2]), 0>>, <<1, 1, 1>>),
                      name, <<>>, <<>>)
       ELSE LET r == process_regular_2d_scalars(args)
            IN IF r.exc # "none" THEN BuilderRaise(r.exc, r.fcalls)
               ELSE IF Len(r.val[3].shape) # 2 THEN BuilderRaise("AssertionError", r.fcalls)
               ELSE LET xa == linspace(min(r.val[1]), max(r.val[1]), r.val[3].shape[1])
                        ya == linspace(min(r.val[2]), max(r.val[2]), r.val[3].shape[2])
                        ds == DataSource("StructuredPoints", <<xa, ya>>, NoneV,
                                         ravel(transpose(r.val[3])), <<>>, <<>>, <<>>)
                    IN BuilderReturn(ds, name, r.fcalls, <<>>)

----------------------------------------------------------------------------
(* gridsource *)

\* variant: the object handed to tools._add_data twice
gridsource_twice(x, y, z, kwargs) ==
    LET scalars0 == Pop(kwargs, "scalars", NoneV)
        scalars == IF IsNone(scalars0) THEN z ELSE scalars0
        name == Pop(kwargs, "name", "GridSource")
        ds == DataSource("TriangleMesh", <<x, y, z>>, NoneV, scalars, <<>>, <<>>, <<>>)
    IN [exc |-> "none", val |-> ds, fcalls |-> <<>>, glyphs |-> <<>>,
        adds |-> <<<<ds, name>>, <<ds, name>>>>]

gridsource(x, y, z, kwargs) ==
    LET scalars0 == Pop(kwargs, "scalars", NoneV)
        scalars == IF IsNone(scalars0) THEN z ELSE scalars0
        name == Pop(kwargs, "name", "GridSource")
        \* mlab.make_triangles_points and mlab.make_triangle_polydata
        ds == DataSource("TriangleMesh", <<x, y, z>>, NoneV, scalars, <<>>, <<>>, <<>>)
    IN BuilderReturn(ds, name, <<>>, <<>>)

----------------------------------------------------------------------------
(* Inputs *)

Shapes3 == {<<a, b, c>> : a \in 1..MaxDim, b \in 1..MaxDim, c \in 1..MaxDim}
Shapes2 == {<<a, b>> : a \in 1..MaxDim, b \in 1..MaxDim}
Shapes1 == {<<a>> : a \in 1..MaxDim}
Shapes == Shapes3 \cup Shapes2 \cup Shapes1

\* n arrays: the i-th holds 10*i, 10*i+1, ...; the first has shape sh1 and
\* every other one has shape sh1 or sh2
InputArrays == [sh \in Shapes, i \in 1..MaxArity |-> Ramp(sh, 10 * i)]

ArrayArgs(n, sh1, sh2, M) ==
    [i \in 1..n |-> InputArrays[IF i \in M THEN sh2 ELSE sh1, i]]

\* what a caller may pass as last argument: the array, a callable or None
LastArgs(a) == {a, Callable("f_rot"), Callable("f_bad"), NoneV}

WithLast(args, l) == [args EXCEPT ![Len(args)] = l]

NoKw == [k \in {} |-> NoneV]

----------------------------------------------------------------------------
(* Actions *)

NoCall == [fn |-> "none", args |-> <<>>, kwargs |-> NoKw]

Init ==
    /\ registry = <<>>
    /\ pc = "ready"
    /\ call = NoCall
    /\ outcome = [exc |-> "none", val |-> NoVal]
    /\ fCalls = <<>>
    /\ glyphCalls = <<>>
    /\ addCalls = <<>>

\* a direct call of a normalizer
Normalize(fn, args, r) ==
    /\ pc' = "returned"
    /\ call' = [fn |-> fn, args |-> args, kwargs |-> NoKw]
    /\ outcome' = [exc |-> r.exc, val |-> r.val]
    /\ fCalls' = r.fcalls
    /\ glyphCalls' = <<>>
    /\ addCalls' = <<>>
    /\ UNCHANGED registry

CallProcessRegularVectors ==
    /\ pc = "ready"
    /\ \E n \in 0..MaxArity, sh1 \in Shapes, sh2 \in Shapes :
         \E M \in SUBSET (2..n) :
           LET arrays == ArrayArgs(n, sh1, sh2, M)
           IN \E l \in (IF n = 4 THEN LastArgs(arrays[n]) ELSE {NoneV}) :
                LET args == IF n = 4 THEN WithLast(arrays, l) ELSE arrays
                IN Normalize("process_regular_vectors", args, process_regular_vectors(args))

CallProcessRegularScalars ==
    /\ pc = "ready"
    /\ \E n \in 0..MaxArity, sh1 \in Shapes, sh2 \in Shapes :
         \E M \in SUBSET (2..n) :
           LET arrays == ArrayArgs(n, sh1, sh2, M)
           IN \E l \in (IF n = 4 THEN LastArgs(arrays[n]) ELSE {NoneV}) :
                LET args == IF n = 4 THEN WithLast(arrays, l) ELSE arrays
                IN Normalize("process_regular_scalars", args, process_regular_scalars(args))

CallProcessRegular2DScalars ==
    /\ pc = "ready"
    /\ \E n \in 0..MaxArity, sh1 \in Shapes, sh2 \in Shapes :
         \E M \in SUBSET (2..n) :
           LET arrays == ArrayArgs(n, sh1, sh2, M)
           IN \E l \in (IF n = 3 THEN LastArgs(arrays[n]) ELSE {NoneV}) :
                LET args == IF n = 3 THEN WithLast(arrays, l) ELSE arrays
                IN Normalize("process_regular_2d_scalars", args, process_regular_2d_scalars(args))

\* the caller takes the outcome of the call and is ready for the next one
Return ==
    /\ pc = "returned"
    /\ pc' = "ready"
    /\ call' = NoCall
    /\ outcome' = [exc |-> "none", val |-> NoVal]
    /\ fCalls' = <<>>
    /\ glyphCalls' = <<>>
    /\ addCalls' = <<>>
    /\ UNCHANGED registry

NextVec == CallProcessRegularVectors \/ Return

SpecVec == Init /\ [][NextVec]_vars

NextScal == CallProcessRegularScalars \/ CallProcessRegular2DScalars \/ Return

SpecScal == Init /\ [][NextScal]_vars

----------------------------------------------------------------------------
(* Builder calls *)

RECURSIVE AddAll(_, _)
AddAll(reg, adds) ==
    IF adds = <<>> THEN reg
    ELSE AddAll(AddData(reg, Head(adds)[1], Head(adds)[2]), Tail(adds))

\* a call of a builder, with every call it makes of its collaborators
Build(fn, args, kwargs, r) ==
    /\ pc' = "returned"
    /\ call' = [fn |-> fn, args |-> args, kwargs |-> kwargs]
    /\ outcome' = [exc |-> r.exc, val |-> r.val]
    /\ fCalls' = r.fcalls
    /\ glyphCalls' = r.glyphs
    /\ addCalls' = r.adds
    /\ registry' = AddAll(registry, r.adds)

CanCall == pc = "ready" /\ Len(registry) < MaxRegistry

\* the numbers of positional arguments tried on a builder
BuilderArities == {1, 2, 3, 4, 6}

\* a regular grid, a grid with a single sample along its first axis, and a
\* 2-D array
GridShape == <<MaxDim, MaxDim, MaxDim>>
ThinShape == <<1, MaxDim, MaxDim>>
FlatShape == <<MaxDim, MaxDim>>

\* what a builder call may pass as last argument: the array or a callable
BuilderLastArgs(a) == {a, Callable("f_rot")}

\* the keyword arguments: name and scalars, each passed or not
Kwargs(hasName, hasScalars, S) ==
    [k \in (IF hasName THEN {"name"} ELSE {}) \cup (IF hasScalars THEN {"scalars"} ELSE {})
        |-> IF k = "name" THEN "custom" ELSE S]

\* the calls <<args, kwargs>> tried on a builder: arrays of one shape of
\* shapes, or with the last one of shape FlatShape or ThinShape instead, or
\* with a callable as argument number callableAt; the scalars keyword is
\* passed or not as scalarsKw says
BuilderCallsOf(callableAt, n, sh1, hasName, hasScalars, flip) ==
    LET sh2 == IF sh1 = FlatShape THEN ThinShape ELSE FlatShape
        arrays == ArrayArgs(n, sh1, sh2, IF flip THEN {n} ELSE {})
        kwargs == Kwargs(hasName, hasScalars, InputArrays[sh1, MaxArity])
    IN {<<IF n = callableAt THEN WithLast(arrays, l) ELSE arrays, kwargs>> :
          l \in (IF n = callableAt THEN BuilderLastArgs(arrays[n]) ELSE {NoneV})}

BuilderCalls(callableAt, shapes, scalarsKw) ==
    UNION {BuilderCallsOf(callableAt, p[1], p[2], p[3], p[4], p[5]) :
             p \in BuilderArities \X shapes \X BOOLEAN \X scalarsKw \X BOOLEAN}

VectorscatterCalls == BuilderCalls(4, {GridShape}, BOOLEAN)

CallVectorscatter ==
    /\ CanCall
    /\ \E c \in VectorscatterCalls :
         Build("vectorscatter", c[1], c[2], vectorscatter(c[1], c[2]))

VectorfieldCalls == BuilderCalls(4, {GridShape, ThinShape}, BOOLEAN)

CallVectorfield ==
    /\ CanCall
    /\ \E c \in VectorfieldCalls :
         Build("vectorfield", c[1], c[2], vectorfield(c[1], c[2]))

ScalarscatterCalls == BuilderCalls(4, {GridShape}, {FALSE})

CallScalarscatter ==
    /\ CanCall
    /\ \E c \in ScalarscatterCalls :
         Build("scalarscatter", c[1], c[2], scalarscatter(c[1], c[2]))

ScalarfieldCalls == BuilderCalls(4, {GridShape, ThinShape}, {FALSE})

CallScalarfield ==
    /\ CanCall
    /\ \E c \in ScalarfieldCalls :
         Build("scalarfield", c[1], c[2], scalarfield(c[1], c[2]))

LinesourceCalls == BuilderCalls(4, {FlatShape}, {FALSE})

CallLinesource ==
    /\ CanCall
    /\ \E c \in LinesourceCalls :
         Build("linesource", c[1], c[2], linesource(c[1], c[2]))

Array2dsourceCalls == BuilderCalls(3, {FlatShape}, {FALSE})

CallArray2dsource ==
    /\ CanCall
    /\ \E c \in Array2dsourceCalls :
         Build("array2dsource", c[1], c[2], array2dsource(c[1], c[2]))

CallGridsource ==
    /\ CanCall
    /\ \E hasName \in BOOLEAN, hasScalars \in BOOLEAN :
         LET args == ArrayArgs(3, FlatShape, FlatShape, {})
             kwargs == Kwargs(hasName, hasScalars, InputArrays[FlatShape, MaxArity])
         IN Build("gridsource", args, kwargs, gridsource(args[1], args[2], args[3], kwargs))

Next ==
    \/ CallVectorscatter
    \/ CallVectorfield
    \/ CallScalarscatter
    \/ CallScalarfield
    \/ CallLinesource
    \/ CallArray2dsource
    \/ CallGridsource
    \/ Return

Spec == Init /\ [][Next]_vars

----------------------------------------------------------------------------
(* Line inputs: 1-D arrays of 0..MaxPts points and 2-D arrays *)

LineShapes == {<<p>> : p \in 0..MaxPts} \cup Shapes2

LineArrays == [sh \in LineShapes, i \in 1..4 |-> Ramp(sh, 10 * i)]

CallLinesourcePoints ==
    /\ CanCall
    /\ \E n \in {1, 2, 3, 4}, sh1 \in LineShapes, sh2 \in {<<1>>, <<MaxDim, MaxDim>>} :
         \E M \in {{}, {n}} :
           LET arrays == [i \in 1..n |-> LineArrays[IF i \in M THEN sh2 ELSE sh1, i]]
           IN \E l \in (IF n = 4 THEN LastArgs(arrays[n]) ELSE {NoneV}) :
                LET args == IF n = 4 THEN WithLast(arrays, l) ELSE arrays
                IN Build("linesource", args, NoKw, linesource(args, NoKw))

NextLine == CallLinesourcePoints \/ Return

SpecLine == Init /\ [][NextLine]_vars

----------------------------------------------------------------------------
(* Grid inputs: coordinate arrays with a uniform step per axis *)

GridSteps == {-1, 2}

\* the first sample of the grid along axis 1, 2, 3
GridStart == <<1, 2, 3>>

GridArgs(sh, sx, sy, sz) ==
    <<Mgrid(sh, 1, GridStart[1], sx), Mgrid(sh, 2, GridStart[2], sy),
      Mgrid(sh, 3, GridStart[3], sz)>>

CallVectorfieldGrid ==
    /\ CanCall
    /\ \E sh \in Shapes3, sx \in GridSteps, sy \in GridSteps, sz \in GridSteps :
         LET args == GridArgs(sh, sx, sy, sz)
                       \o <<InputArrays[sh, 4], InputArrays[sh, 5], InputArrays[sh, 6]>>
         IN Build("vectorfield", args, NoKw, vectorfield(args, NoKw))

CallScalarfieldGrid ==
    /\ CanCall
    /\ \E sh \in Shapes3, sx \in GridSteps, sy \in GridSteps, sz \in GridSteps :
         LET args == GridArgs(sh, sx, sy, sz) \o <<InputArrays[sh, 4]>>
         IN Build("scalarfield", args, NoKw, scalarfield(args, NoKw))

NextField == CallVectorfieldGrid \/ CallScalarfieldGrid \/ Return

SpecField == Init /\ [][NextField]_vars

----------------------------------------------------------------------------
(* Properties of process_regular_vectors *)

SameShapes(as) == \A i \in 1..Len(as) : \A j \in 1..Len(as) : as[i].shape = as[j].shape

IsVecCall == pc = "returned" /\ call.fn = "process_regular_vectors"

\* C7: a 6-argument call of process_regular_vectors returns its six
\* arguments unchanged and in order when all six shapes are equal, and raises
\* the shape-mismatch assertion, returning nothing, when any two differ.
C7_SixArgsPassThrough ==
    (IsVecCall /\ Len(call.args) = 6) =>
        IF SameShapes(call.args)
        THEN outcome.exc = "none" /\ outcome.val = call.args
        ELSE outcome.exc = "AssertionError" /\ outcome.val = NoVal

C7_Witness ==
    /\ IsVecCall /\ Len(call.args) = 6
    /\ \A i \in 1..5 : call.args[i].shape = call.args[1].shape
    /\ call.args[6].shape # call.args[1].shape
    /\ outcome.exc = "AssertionError"

\* C8: process_regular_vectors raises ValueError, calling nothing and
\* whatever the shapes are, when it gets 4 arguments with a last one that is
\* not callable or a number of arguments other than 3, 4 or 6; with 4
\* arguments and a callable f it calls f exactly once, with (x, y, z), and
\* takes the result as (u, v, w).
C8_ArityAndCallable ==
    IsVecCall =>
        LET n == Len(call.args)
        IN /\ (n \notin {3, 4, 6} \/ (n = 4 /\ ~callable(call.args[4]))) =>
                (outcome.exc = "ValueError" /\ fCalls = <<>> /\ outcome.val = NoVal)
           /\ (n = 4 /\ callable(call.args[4])) =>
                /\ fCalls = <<<<call.args[1], call.args[2], call.args[3]>>>>
                /\ outcome.exc \in {"none", "AssertionError"}
                /\ outcome.exc = "none" =>
                      <<outcome.val[4], outcome.val[5], outcome.val[6]>>
                        = CallVec(call.args[4], call.args[1], call.args[2], call.args[3])

C8_Witness ==
    /\ IsVecCall /\ Len(call.args) = 4
    /\ IsArray(call.args[4])
    /\ call.args[2].shape # call.args[1].shape
    /\ outcome.exc = "ValueError"

\* C9: a 3-argument call of process_regular_vectors with u, v, w of one
\* 3-dimensional shape returns (x, y, z, u, v, w) with u, v, w unchanged and
\* x[i,j,k] = i, y[i,j,k] = j, z[i,j,k] = k over that shape.
C9_IndexArrays ==
    (IsVecCall /\ Len(call.args) = 3 /\ SameShapes(call.args)
       /\ Len(call.args[1].shape) = 3) =>
        /\ outcome.exc = "none"
        /\ Len(outcome.val) = 6
        /\ <<outcome.val[4], outcome.val[5], outcome.val[6]>> = call.args
        /\ \A a \in 1..3 :
             /\ outcome.val[a].shape = call.args[1].shape
             /\ \A i \in 0..(call.args[1].shape[1] - 1),
                   j \in 0..(call.args[1].shape[2] - 1),
                   k \in 0..(call.args[1].shape[3] - 1) :
                     outcome.val[a].data[<<i, j, k>>] = <<i, j, k>>[a]

C9_Witness ==
    /\ IsVecCall /\ Len(call.args) = 3 /\ SameShapes(call.args)
    /\ Len(call.args[1].shape) = 3
    /\ call.args[1].shape[1] # call.args[1].shape[3]
    /\ call.args[1].shape[2] > 1
    /\ outcome.exc = "none"

----------------------------------------------------------------------------
(* Properties of process_regular_scalars *)

IsScalCall == pc = "returned" /\ call.fn = "process_regular_scalars"

\* the tuple (x, y, z, s) the arity of the call selects
ScalDispatched(args) ==
    IF Len(args) = 1
    THEN <<indices(args[1].shape, 1), indices(args[1].shape, 2), indices(args[1].shape, 3), args[1]>>
    ELSE IF Len(args) = 3 THEN args \o <<NoneV>>
    ELSE IF callable(args[4])
         THEN <<args[1], args[2], args[3], CallScal(args[4], args[1], args[2], args[3])>>
         ELSE args

\* C10: process_regular_scalars dispatches on the number of arguments: 1
\* gives (index arrays of s, s), 3 give (x, y, z, None), 4 give (x, y, z, s)
\* with s replaced by s(x, y, z) exactly when s is callable, any other number
\* raises ValueError; the tuple is returned only if x, y, z have one shape
\* and s, when present, has it too, and the assertion is raised otherwise.
C10_ScalarDispatch ==
    IsScalCall =>
        LET n == Len(call.args)
        IN IF n \notin {1, 3, 4}
           THEN outcome.exc = "ValueError" /\ outcome.val = NoVal /\ fCalls = <<>>
           ELSE LET t == ScalDispatched(call.args)
                    ok == /\ (n = 1 => Len(call.args[1].shape) = 3)
                          /\ t[1].shape = t[2].shape /\ t[1].shape = t[3].shape
                          /\ (t[4] # NoneV => t[4].shape = t[1].shape)
                IN /\ fCalls = IF n = 4 /\ callable(call.args[4])
                               THEN <<<<call.args[1], call.args[2], call.args[3]>>>>
                               ELSE <<>>
                   /\ IF ok THEN outcome.exc = "none" /\ outcome.val = t
                      ELSE outcome.exc = "AssertionError" /\ outcome.val = NoVal

C10_Witness ==
    /\ IsScalCall /\ Len(call.args) = 4
    /\ IsArray(call.args[4])
    /\ SameShapes(<<call.args[1], call.args[2], call.args[3]>>)
    /\ call.args[4].shape # call.args[1].shape
    /\ outcome.exc = "AssertionError"

----------------------------------------------------------------------------
(* Properties of the builders *)

Builders == {"vectorscatter", "vectorfield", "scalarscatter", "scalarfield",
             "linesource", "array2dsource", "gridsource"}

IsBuilderCall == pc = "returned" /\ call.fn \in Builders

DefaultName(fn) ==
    CASE fn = "vectorscatter" -> "VectorScatter"
      [] fn = "vectorfield" -> "VectorField"
      [] fn = "scalarscatter" -> "ScalarScatter"
      [] fn = "scalarfield" -> "ScalarField"
      [] fn = "linesource" -> "LineSource"
      [] fn = "array2dsource" -> "Array2DSource"
      [] fn = "gridsource" -> "GridSource"

\* C1: every builder registers its object under the value of the name
\* keyword when one is passed, and under its default literal only when none
\* is passed.
C1_NameOverride ==
    (IsBuilderCall /\ outcome.exc = "none") =>
        /\ Len(addCalls) = 1
        /\ addCalls[1][2] = IF "name" \in DOMAIN call.kwargs THEN call.kwargs["name"]
                             ELSE DefaultName(call.fn)

\* the error kinds of argument validation: invalid-argument and shape-mismatch
ArgumentErrors == {"ValueError", "AssertionError"}

NumPoints == Size(call.args[1].shape)

IsLineCall == pc = "returned" /\ call.fn = "linesource" /\ Len(call.args) \in {3, 4}

\* C3: linesource raises ValueError and registers nothing whenever the
\* coordinates describe fewer than 2 points.
C3_TooFewPoints ==
    (IsLineCall /\ NumPoints < 2) =>
        /\ outcome.exc \in ArgumentErrors
        /\ addCalls = <<>>
        /\ (Len(call.args) = 3 /\ SameShapes(call.args)) => outcome.exc = "ValueError"

\* C4: a linesource call with n >= 2 points builds exactly n-1 segments,
\* segment i being (i, i+1), the points being numbered in the C order of
\* the coordinate arrays.
C4_ConsecutiveSegments ==
    (IsLineCall /\ NumPoints >= 2) =>
        /\ (Len(call.args) = 3 /\ SameShapes(call.args)) => outcome.exc = "none"
        /\ outcome.exc = "none" =>
             /\ Len(outcome.val.lines) = NumPoints - 1
             /\ \A i \in 0..(NumPoints - 2) : outcome.val.lines[i + 1] = <<i, i + 1>>
             /\ Len(outcome.val.points) = NumPoints
             /\ \A idx \in IndexSet(call.args[1].shape) :
                  outcome.val.points[RavelIndex(call.args[1].shape, idx) + 1]
                    = <<call.args[1].data[idx], call.args[2].data[idx], call.args[3].data[idx]>>

C4_Witness ==
    /\ IsLineCall /\ outcome.exc = "none"
    /\ Len(call.args[1].shape) = 2
    /\ call.args[1].shape[1] > 1 /\ call.args[1].shape[2] > 1
    /\ Len(registry) > 0

IsFieldCall == pc = "returned" /\ call.fn \in {"vectorfield", "scalarfield"}

\* C5: on a grid with a uniform step per axis and at least 2 samples per
\* axis, increasing or decreasing, vectorfield and scalarfield build a
\* source whose spacing is the triple of steps and whose origin is
\* (min x, min y, min z).
C5_SpacingAndOrigin ==
    \A sx \in GridSteps, sy \in GridSteps, sz \in GridSteps :
      (/\ IsFieldCall
       /\ \A a \in 1..3 : call.args[1].shape[a] >= 2
       /\ <<call.args[1], call.args[2], call.args[3]>>
            = GridArgs(call.args[1].shape, sx, sy, sz)) =>
          /\ outcome.exc = "none"
          /\ outcome.val.spacing = <<sx, sy, sz>>
          /\ outcome.val.origin = <<min(call.args[1]), min(call.args[2]), min(call.args[3])>>

\* C6: vectorscatter hands the value of the scalars keyword to the glyph
\* collaborator together with the points and the vectors, and None only
\* when no scalars keyword is passed.
C6_ScalarsKeyword ==
    (IsBuilderCall /\ call.fn = "vectorscatter" /\ outcome.exc = "none") =>
        /\ Len(glyphCalls) = 1
        /\ glyphCalls[1][3] = IF "scalars" \in DOMAIN call.kwargs
                               THEN call.kwargs["scalars"] ELSE NoneV

====
